---- MODULE Spec2Model ----
(***************************************************************************)
(* A model of app.py: the form-to-document generator.  The web handlers    *)
(* (generate, download) act on two folders, uploads and outputs; the two   *)
(* builders (build_docx, build_pdf) are functions of the form data, the    *)
(* image paths and the files those paths name.                             *)
(*                                                                         *)
(* Strings that the code transforms (titles, filenames) are sequences of   *)
(* one-character strings, so that secure_filename, replace and rsplit are  *)
(* computed.  Fixed texts the code only copies are TLA+ strings.  A form   *)
(* text that is only tested for emptiness and wrapped is a record          *)
(* [blank, nlines]: blank says whether it is the empty string, nlines is   *)
(* the number of lines textwrap.wrap(text, 100) yields (a text of spaces   *)
(* only is not blank and wraps to zero lines).                             *)
(*                                                                         *)
(* Lengths on the PDF canvas are in hundredths of a point: A4 is           *)
(* 595.2756 x 841.8898 pt, every other length of the code is a whole       *)
(* number of points.                                                       *)
(***************************************************************************)
EXTENDS Integers, Sequences, FiniteSets, TLC

VARIABLES
    uploads,    \* the uploads folder: filename -> image
    outputs,    \* the outputs folder: filename -> document
    last,       \* what the last handler call received and answered
    pdfFailed,  \* history: output names whose latest PDF build raised
    ngen,       \* history: number of generate requests served
    args,       \* the arguments of a direct builder call
    docx,       \* the document build_docx produced for args
    pdf         \* the canvas build_pdf produced for args

vars == <<uploads, outputs, last, pdfFailed, ngen, args, docx, pdf>>

----------------------------------------------------------------------------
(* Bounds *)

MaxTitleLen == 2
MaxGenerates == 2
MaxUploadPhotos == 2
MaxPhotos == 9
MaxLines == 32

----------------------------------------------------------------------------
(* Small helpers *)

Range(s) == {s[i] : i \in 1..Len(s)}

BoundedSeq(S, n) == UNION {[1..k -> S] : k \in 0..n}

\* a length given in points, in the model's unit
Pt(n) == n * 100

----------------------------------------------------------------------------
(* Strings *)

SPACE == " "

AsciiAllowed ==
    {"a", "b", "c", "d", "e", "f", "g", "i", "n", "p", "t", "v", "x",
     "G", "I", "F", "R", "W", "_", ".", "-"}

LowerChar(c) ==
    CASE c = "G" -> "g"
      [] c = "I" -> "i"
      [] c = "F" -> "f"
      [] c = "R" -> "r"
      [] c = "W" -> "w"
      [] OTHER -> c

Lower(s) == [i \in 1..Len(s) |-> LowerChar(s[i])]

\* str.replace(old, new) for one-character old and new
Replace(s, old, new) == [i \in 1..Len(s) |-> IF s[i] = old THEN new ELSE s[i]]

RECURSIVE JoinSplitFrom(_, _, _, _)
JoinSplitFrom(s, i, out, inWord) ==
    IF i > Len(s) THEN out
    ELSE IF s[i] = SPACE THEN JoinSplitFrom(s, i + 1, out, FALSE)
    ELSE JoinSplitFrom(s, i + 1,
            Append(IF ~inWord /\ out # <<>> THEN Append(out, "_") ELSE out, s[i]),
            TRUE)

\* "_".join(s.split())
JoinSplit(s) == JoinSplitFrom(s, 1, <<>>, FALSE)

RECURSIVE LStrip(_, _)
LStrip(s, chars) ==
    IF s # <<>> /\ Head(s) \in chars THEN LStrip(Tail(s), chars) ELSE s

RECURSIVE RStrip(_, _)
RStrip(s, chars) ==
    IF s # <<>> /\ s[Len(s)] \in chars
    THEN RStrip(SubSeq(s, 1, Len(s) - 1), chars)
    ELSE s

Strip(s, chars) == RStrip(LStrip(s, chars), chars)

\* werkzeug.utils.secure_filename: path separators become spaces, runs of
\* whitespace become one "_", every character outside [A-Za-z0-9_.-] is
\* dropped, leading and trailing "." and "_" are stripped.
secure_filename(filename) ==
    LET spaced == Replace(filename, "/", SPACE)
        joined == JoinSplit(spaced)
        ascii  == SelectSeq(joined, LAMBDA c : c \in AsciiAllowed)
    IN  Strip(ascii, {".", "_"})

RECURSIVE LastDot(_, _)
LastDot(s, i) == IF i = 0 THEN 0 ELSE IF s[i] = "." THEN i ELSE LastDot(s, i - 1)

\* filename.rsplit(".", 1)[1]
ExtOf(s) == SubSeq(s, LastDot(s, Len(s)) + 1, Len(s))

ALLOWED_IMG ==
    {<<"p", "n", "g">>, <<"j", "p", "g">>, <<"j", "p", "e", "g">>, <<"g", "i", "f">>}

allowed_file(filename) ==
    /\ "." \in Range(filename)
    /\ Lower(ExtOf(filename)) \in ALLOWED_IMG

UPLOAD_FOLDER == "uploads"
OUTPUT_FOLDER == "outputs"

\* os.path.join(folder, name), os.path.basename(path)
PathJoin(folder, name) == [dir |-> folder, name |-> name]
Basename(p) == p.name

EVENT == <<"e", "v", "e", "n", "t">>
EXT_DOCX == <<".", "d", "o", "c", "x">>
EXT_PDF == <<".", "p", "d", "f">>

----------------------------------------------------------------------------
(* Form data, texts and images *)

\* A text of the form: blank iff it is "", nlines the lines wrap gives it.
Text(blank, nlines) == [blank |-> blank, nlines |-> nlines]
EmptyText == Text(TRUE, 0)

\* Python truthiness of a string: data.get("day1") in a condition
Truthy(t) == ~t.blank

\* len(textwrap.wrap(text, 100))
Wrap(t) == t.nlines

\* What Image.open / add_picture find in a file: a decodable image of
\* iw x ih pixels, or a file they raise on (ok = FALSE).
Image(id, iw, ih) == [id |-> id, iw |-> iw, ih |-> ih, ok |-> TRUE]
Undecodable(id) == [id |-> id, iw |-> 0, ih |-> 0, ok |-> FALSE]

NoPath == [dir |-> "", name |-> <<>>]

\* The form fields the builders test or wrap; ref_no, date_ref, department,
\* academic_year, date_activity and organized_by are copied into fixed
\* places and stand in the labels of their blocks.
FormData(title, overview, day1, day2, learning_outcomes, conclusion) ==
    [title |-> title, overview |-> overview, day1 |-> day1, day2 |-> day2,
     learning_outcomes |-> learning_outcomes, conclusion |-> conclusion,
     circular_text |-> EmptyText]

----------------------------------------------------------------------------
(* build_docx: the document is its header and the sequence of body blocks *)

Para(style, label, arg) ==
    [kind |-> "para", style |-> style, label |-> label, arg |-> arg]
Picture(img) == [kind |-> "picture", img |-> img]
PageBreak == [kind |-> "pagebreak"]
Table(label, cells) == [kind |-> "table", label |-> label, cells |-> cells]

\* doc.add_table(rows=1, cols=2): one row of two empty cells
PhotoRow == Table("photos", <<(<<>>), (<<>>)>>)

\* Page 1: the circular
DocxCircular(data, invitation_path, fs) ==
    <<Para("Normal", "", <<>>),
      Para("Normal", "Ref / Date", <<>>),
      Para("Intense Quote", "CIRCULAR", <<>>)>>
    \o (IF invitation_path # NoPath /\ fs[Basename(invitation_path)].ok
        THEN <<Picture(fs[Basename(invitation_path)])>>
        ELSE <<Para("Normal", "circular_text", data.circular_text)>>)
    \o <<Para("Normal", "HoD PRINCIPAL", <<>>),
         Para("Normal", "Copy to", <<>>),
         PageBreak>>

\* Page 2: the report
DocxReport(data) ==
    <<Para("Title", "DEPARTMENT OF", <<>>),
      Para("Heading 1", "REPORT OF THE EVENT", <<>>),
      Table("details", <<data.title>>),
      Para("Normal", "", <<>>),
      Para("Heading 2", "Workshop Overview", <<>>),
      Para("Normal", "text", data.overview)>>
    \o (IF Truthy(data.day1)
        THEN <<Para("Heading 3", "Day 1: Fundamentals and Demonstrations", <<>>),
               Para("Normal", "text", data.day1)>>
        ELSE <<>>)
    \o (IF Truthy(data.day2)
        THEN <<Para("Heading 3", "Day 2: Advanced Troubleshooting and Maintenance", <<>>),
               Para("Normal", "text", data.day2)>>
        ELSE <<>>)
    \o (IF Truthy(data.learning_outcomes)
        THEN <<Para("Heading 2", "Learning Outcomes", <<>>),
               Para("Normal", "text", data.learning_outcomes)>>
        ELSE <<>>)
    \o <<Para("Heading 2", "Conclusion", <<>>),
         Para("Normal", "text", data.conclusion),
         Para("Normal", "Function was inaugurated by our resource person", <<>>),
         Table("signatures", <<"HoD", "PRINCIPAL">>),
         PageBreak>>

\* One iteration of the photo loop.  st.row_cells is the index in the body
\* of the table row_cells refers to (0: not yet bound).
\* (mutant) the row is added only once the picture has been read, so a
\* failing photo at an even index leaves row_cells on the previous row
DocxAddPhotoRowAfterDecode(st, i, p, fs) ==
    LET img == fs[Basename(p)]
        st1 == IF i % 2 = 0 /\ img.ok
               THEN [body |-> Append(st.body, PhotoRow),
                     row_cells |-> Len(st.body) + 1]
               ELSE st
    IN  IF img.ok /\ st1.row_cells # 0
        THEN [st1 EXCEPT !.body[st1.row_cells].cells[(i % 2) + 1] = Append(@, img)]
        ELSE [st1 EXCEPT !.body =
                Append(@, Para("Normal", "(Unable to add image)", Basename(p)))]

DocxAddPhoto(st, i, p, fs) ==
    LET st1 == IF i % 2 = 0
               THEN [body |-> Append(st.body, PhotoRow),
                     row_cells |-> Len(st.body) + 1]
               ELSE st
        img == fs[Basename(p)]
    IN  IF img.ok
        THEN [st1 EXCEPT !.body[st1.row_cells].cells[(i % 2) + 1] = Append(@, img)]
        ELSE [st1 EXCEPT !.body =
                Append(@, Para("Normal", "(Unable to add image)", Basename(p)))]

RECURSIVE DocxPhotoLoop(_, _, _, _)
DocxPhotoLoop(st, i, photo_paths, fs) ==
    IF i >= Len(photo_paths) THEN st
    ELSE DocxPhotoLoop(DocxAddPhoto(st, i, photo_paths[i + 1], fs), i + 1,
                       photo_paths, fs)

\* Page 3: the photographs
DocxPhotos(body, photo_paths, fs) ==
    LET headed == Append(body, Para("Heading 1", "Event Photographs", <<>>))
    IN  IF photo_paths # <<>>
        THEN DocxPhotoLoop([body |-> headed, row_cells |-> 0], 0, photo_paths, fs).body
        ELSE Append(headed, Para("Normal", "No photos uploaded.", <<>>))

build_docx(data, invitation_path, photo_paths, fs) ==
    [built |-> TRUE,
     header |-> "SURYA ENGINEERING COLLEGE, ERODE",
     body |-> DocxPhotos(DocxCircular(data, invitation_path, fs) \o DocxReport(data),
                         photo_paths, fs)]

----------------------------------------------------------------------------
(* build_pdf: the canvas is the sequence of drawing operations, each with  *)
(* the page it lands on                                                    *)

\* A4, in hundredths of a point
PageW == 59528
PageH == 84189

NewCanvas == [ops |-> <<>>, page |-> 1]

DrawOp(c, op) == [c EXCEPT !.ops = Append(@, op @@ [page |-> c.page])]

draw_header(c) == DrawOp(c, [op |-> "header"])

\* c.drawString / drawCentredString / drawRightString at height y
DrawString(c, y, label) == DrawOp(c, [op |-> "text", y |-> y, label |-> label])

\* one line of a wrapped section text
DrawLine(c, y, sec) == DrawOp(c, [op |-> "line", y |-> y, label |-> sec])

\* c.drawInlineImage with its lower edge at y; idx is history: the index
\* of the photo in photo_paths, -1 for the invitation
DrawInlineImage(c, idx, p, img, x, y, draw_w, draw_h) ==
    DrawOp(c, [op |-> "image", idx |-> idx, path |-> p, img |-> img,
               x |-> x, y |-> y, w |-> draw_w, h |-> draw_h])

showPage(c) == [c EXCEPT !.page = @ + 1]

\* Page 1: the circular
PdfCircular(c0, data, invitation_path, fs) ==
    LET c1 == draw_header(c0)
        c2 == DrawString(c1, PageH - Pt(120), "Ref")
        c3 == DrawString(c2, PageH - Pt(120), "Date")
        c4 == DrawString(c3, PageH - Pt(150), "CIRCULAR")
        y  == PageH - Pt(180)
        c5 == IF invitation_path # NoPath /\ fs[Basename(invitation_path)].ok
              THEN LET im == fs[Basename(invitation_path)]
                       max_w == PageW - Pt(100)
                       draw_h == (im.ih * max_w) \div im.iw
                   IN  DrawInlineImage(c4, -1, invitation_path, im, Pt(50),
                                       y - draw_h - Pt(10), max_w, draw_h)
              ELSE DrawString(c4, y, "circular_text")
        c6 == DrawString(c5, Pt(120), "HoD PRINCIPAL")
    IN  showPage(c6)

\* for ln in wrap(text, 100): draw, step down, break the page when y < 120
RECURSIVE PdfWrapped(_, _, _)
PdfWrapped(st, n, sec) ==
    IF n = 0 THEN st
    ELSE LET drawn == [c |-> DrawLine(st.c, st.y, sec), y |-> st.y - Pt(14)]
         IN  IF drawn.y < Pt(120)
             THEN PdfWrapped([c |-> draw_header(showPage(drawn.c)),
                              y |-> PageH - Pt(120)], n - 1, sec)
             ELSE PdfWrapped(drawn, n - 1, sec)

\* a section: 8pt of space, the heading, 16pt down, the wrapped text
PdfSection(st, text, heading, sec) ==
    LET y0 == st.y - Pt(8)
    IN  PdfWrapped([c |-> DrawString(st.c, y0, heading), y |-> y0 - Pt(16)],
                   Wrap(text), sec)

RECURSIVE PdfDetailLines(_, _)
PdfDetailLines(st, n) ==
    IF n = 0 THEN st
    ELSE PdfDetailLines([c |-> DrawString(st.c, st.y, "detail"), y |-> st.y - Pt(16)],
                        n - 1)

\* Page 2: the report.  Yields the canvas and the cursor y it leaves.
PdfReport(c0, data) ==
    LET c1 == draw_header(c0)
        c2 == DrawString(c1, PageH - Pt(120), "DEPARTMENT OF")
        c3 == DrawString(c2, PageH - Pt(140), "REPORT OF THE EVENT")
        s0 == PdfDetailLines([c |-> c3, y |-> PageH - Pt(170)], 5)
        s1 == PdfSection(s0, data.overview, "Workshop Overview:", "overview")
        s2 == IF Truthy(data.day1)
              THEN PdfSection(s1, data.day1,
                              "Day 1: Fundamentals and Demonstrations", "day1")
              ELSE s1
        s3 == IF Truthy(data.day2)
              THEN PdfSection(s2, data.day2,
                              "Day 2: Advanced Troubleshooting and Maintenance", "day2")
              ELSE s2
        s4 == IF Truthy(data.learning_outcomes)
              THEN PdfSection(s3, data.learning_outcomes,
                              "Learning Outcomes:", "learning_outcomes")
              ELSE s3
        s5 == IF Truthy(data.conclusion)
              THEN PdfSection(s4, data.conclusion, "Conclusion:", "conclusion")
              ELSE s4
        c6 == DrawString(s5.c, Pt(100), "HoD")
        c7 == DrawString(c6, Pt(100), "PRINCIPAL")
    IN  [c |-> showPage(c7), y |-> s5.y]

\* The photo grid
x_margin == Pt(50)
col_w == (PageW - 2 * x_margin - Pt(20)) \div 2
row_h == Pt(120)
x_positions == <<x_margin, x_margin + col_w + Pt(20)>>

\* iw * ratio and ih * ratio for ratio = min(col_w / iw, row_h / ih)
FitW(im) == IF col_w * im.ih <= row_h * im.iw THEN col_w ELSE (im.iw * row_h) \div im.ih
FitH(im) == IF col_w * im.ih <= row_h * im.iw THEN (im.ih * col_w) \div im.iw ELSE row_h

\* (mutant) col and row advance inside the try, so only for a drawn photo
PdfAddPhotoAdvanceInTry(st, idx, p, fs) ==
    LET im == fs[Basename(p)]
        draw_w == FitW(im)
        draw_h == FitH(im)
        x == x_positions[st.col + 1] + (col_w - draw_w) \div 2
        y == st.y_start - st.row * (row_h + Pt(20)) - draw_h
        st1 == IF im.ok
               THEN [st EXCEPT !.c = DrawInlineImage(st.c, idx, p, im, x, y, draw_w, draw_h),
                               !.y = y]
               ELSE st
        st2 == [st1 EXCEPT !.slots = Append(@, [idx |-> idx, page |-> st.c.page,
                                                 row |-> st.row, col |-> st.col,
                                                 drawn |-> im.ok])]
    IN  IF ~im.ok THEN st2
        ELSE IF st.col + 1 > 1
        THEN IF st2.y - row_h < Pt(120)
             THEN [st2 EXCEPT !.c = draw_header(showPage(st2.c)),
                              !.y_start = PageH - Pt(160),
                              !.col = 0, !.row = 0]
             ELSE [st2 EXCEPT !.col = 0, !.row = st.row + 1]
        ELSE [st2 EXCEPT !.col = st.col + 1]

\* One iteration of the photo loop.  st.slots is history: the page, row and
\* column each photo was given, drawn or not.
PdfAddPhoto(st, idx, p, fs) ==
    LET im == fs[Basename(p)]
        draw_w == FitW(im)
        draw_h == FitH(im)
        x == x_positions[st.col + 1] + (col_w - draw_w) \div 2
        y == st.y_start - st.row * (row_h + Pt(20)) - draw_h
        st1 == IF im.ok
               THEN [st EXCEPT !.c = DrawInlineImage(st.c, idx, p, im, x, y, draw_w, draw_h),
                               !.y = y]
               ELSE st
        st2 == [st1 EXCEPT !.slots = Append(@, [idx |-> idx, page |-> st.c.page,
                                                 row |-> st.row, col |-> st.col,
                                                 drawn |-> im.ok])]
    IN  IF st.col + 1 > 1
        THEN IF st2.y - row_h < Pt(120)
             THEN [st2 EXCEPT !.c = draw_header(showPage(st2.c)),
                              !.y_start = PageH - Pt(160),
                              !.col = 0, !.row = 0]
             ELSE [st2 EXCEPT !.col = 0, !.row = st.row + 1]
        ELSE [st2 EXCEPT !.col = st.col + 1]

RECURSIVE PdfPhotoLoop(_, _, _, _)
PdfPhotoLoop(st, idx, photo_paths, fs) ==
    IF idx >= Len(photo_paths) THEN st
    ELSE PdfPhotoLoop(PdfAddPhoto(st, idx, photo_paths[idx + 1], fs), idx + 1,
                      photo_paths, fs)

\* Page 3: the photographs; y is the cursor the report page left
PdfPhotos(c0, y, photo_paths, fs) ==
    LET c1 == draw_header(c0)
        c2 == DrawString(c1, PageH - Pt(120), "Event Photographs")
    IN  PdfPhotoLoop([c |-> c2, y |-> y, y_start |-> PageH - Pt(160),
                      col |-> 0, row |-> 0, slots |-> <<>>],
                     0, photo_paths, fs)

build_pdf(data, invitation_path, photo_paths, fs) ==
    LET p1 == PdfCircular(NewCanvas, data, invitation_path, fs)
        p2 == PdfReport(p1, data)
        p3 == PdfPhotos(p2.c, p2.y, photo_paths, fs)
    IN  [built |-> TRUE, ops |-> p3.c.ops, pages |-> p3.c.page, slots |-> p3.slots]

----------------------------------------------------------------------------
(* The web handlers *)

\* An uploaded file: the filename the client sent and what the file holds.
\* A file field left empty arrives with an empty filename and is falsy.
FileStorage(filename, img) == [filename |-> filename, img |-> img]
NoFile == FileStorage(<<>>, Undecodable(0))
FilePresent(f) == f.filename # <<>>

\* A folder is a function from the names in it to their contents.
EmptyFolder == <<>>
Exists(folder, name) == name \in DOMAIN folder
WriteFile(folder, name, content) == (name :> content) @@ folder

\* save_file: the path the file was saved under
save_file_path(fileobj) == PathJoin(UPLOAD_FOLDER, secure_filename(fileobj.filename))

\* save_file: the uploads folder after fileobj.save(path)
save_file(fs, fileobj) == WriteFile(fs, secure_filename(fileobj.filename), fileobj.img)

\* the loop over request.files.getlist("photos")
RECURSIVE SavePhotos(_, _, _)
SavePhotos(st, photos, i) ==
    IF i > Len(photos) THEN st
    ELSE LET p == photos[i]
         IN  SavePhotos(
                IF FilePresent(p) /\ allowed_file(p.filename)
                THEN [fs |-> save_file(st.fs, p),
                      photo_paths |-> Append(st.photo_paths, save_file_path(p))]
                ELSE st,
                photos, i + 1)

\* base_name = secure_filename((data.get("title") or "event").replace(" ", "_"))
BaseName(title) ==
    secure_filename(Replace(IF title # <<>> THEN title ELSE EVENT, SPACE, "_"))

Redirect(to) == [kind |-> "redirect", to |-> to]
Preview(data, invitation, photos, docx_name, pdf_name) ==
    [kind |-> "preview", data |-> data, invitation |-> invitation,
     photos |-> photos, docx |-> docx_name, pdf |-> pdf_name]
TextResponse(body, status) == [kind |-> "text", body |-> body, status |-> status]
SendFile(content) == [kind |-> "file", content |-> content]

\* (mutant) a failure of build_pdf is handled like one of build_docx
GenerateBuildAbortOnPdf(out, fs, data, invitation_path, photo_paths, base_name, docxRaises, pdfRaises) ==
    IF docxRaises \/ pdfRaises
    THEN [outputs |-> out, flashed |-> <<"Error creating DOCX">>,
          pdfCalled |-> ~docxRaises, response |-> Redirect("index")]
    ELSE [outputs |-> WriteFile(WriteFile(out, base_name \o EXT_DOCX,
                                   build_docx(data, invitation_path, photo_paths, fs)),
                                base_name \o EXT_PDF,
                                build_pdf(data, invitation_path, photo_paths, fs)),
          flashed |-> <<>>, pdfCalled |-> TRUE,
          response |-> Preview(data, invitation_path, photo_paths,
                               base_name \o EXT_DOCX, base_name \o EXT_PDF)]

\* What generate does once the uploads are saved: the outputs folder it
\* leaves, the messages it flashes, whether it called build_pdf, and its
\* response.  docxRaises / pdfRaises: the builder raises before its file
\* is written, which leaves the outputs folder as it was.
GenerateBuild(out, fs, data, invitation_path, photo_paths, base_name, docxRaises, pdfRaises) ==
    LET docx_name == base_name \o EXT_DOCX
        pdf_name == base_name \o EXT_PDF
    IN  IF docxRaises
        THEN [outputs |-> out, flashed |-> <<"Error creating DOCX">>,
              pdfCalled |-> FALSE, response |-> Redirect("index")]
        ELSE LET out1 == WriteFile(out, docx_name,
                                   build_docx(data, invitation_path, photo_paths, fs))
                 out2 == IF pdfRaises THEN out1
                         ELSE WriteFile(out1, pdf_name,
                                        build_pdf(data, invitation_path, photo_paths, fs))
             IN  [outputs |-> out2, flashed |-> <<>>, pdfCalled |-> TRUE,
                  response |-> Preview(data, invitation_path, photo_paths,
                                       docx_name, pdf_name)]

\* POST /generate
Generate(title, invitation_file, photos, docxRaises, pdfRaises) ==
    /\ ngen < MaxGenerates
    /\ LET data == FormData(title, EmptyText, EmptyText, EmptyText, EmptyText, EmptyText)
           invited == FilePresent(invitation_file) /\ allowed_file(invitation_file.filename)
           invitation_path == IF invited THEN save_file_path(invitation_file) ELSE NoPath
           fs0 == IF invited THEN save_file(uploads, invitation_file) ELSE uploads
       IN  \E saved \in {SavePhotos([fs |-> fs0, photo_paths |-> <<>>], photos, 1)},
              base_name \in {BaseName(title)} :
           \E res \in {GenerateBuild(outputs, saved.fs, data, invitation_path,
                                     saved.photo_paths, base_name, docxRaises, pdfRaises)} :
           /\ uploads' = saved.fs
           /\ outputs' = res.outputs
           /\ last' = [op |-> "generate", title |-> title,
                       invitation_file |-> invitation_file, photos |-> photos,
                       invitation_path |-> invitation_path,
                       photo_paths |-> saved.photo_paths,
                       base_name |-> base_name,
                       docxRaised |-> docxRaises,
                       pdfRaised |-> ~docxRaises /\ pdfRaises,
                       pdfCalled |-> res.pdfCalled,
                       flashed |-> res.flashed,
                       response |-> res.response]
           /\ pdfFailed' = IF ~docxRaises /\ pdfRaises
                           THEN pdfFailed \cup {base_name \o EXT_PDF}
                           ELSE pdfFailed \ {base_name \o EXT_PDF}
    /\ ngen' = ngen + 1
    /\ UNCHANGED <<args, docx, pdf>>

\* The response of GET /download/<fmt>/<filename>
DownloadResponse(out, fmt, filename) ==
    IF fmt = "pdf" /\ ~Exists(out, filename)
    THEN TextResponse("PDF not available", 404)
    ELSE IF ~Exists(out, filename)
    THEN TextResponse("File not found", 404)
    ELSE SendFile(out[filename])

Download(fmt, filename) ==
    /\ last' = [op |-> "download", fmt |-> fmt, filename |-> filename,
                response |-> DownloadResponse(outputs, fmt, filename)]
    /\ UNCHANGED <<uploads, outputs, pdfFailed, ngen, args, docx, pdf>>

----------------------------------------------------------------------------
(* Direct calls of the builders on given arguments *)

NotBuilt == [built |-> FALSE]
NoArgs == [data |-> FormData(<<>>, EmptyText, EmptyText, EmptyText, EmptyText, EmptyText),
           invitation_path |-> NoPath, photo_paths |-> <<>>]

CallBuildDocx ==
    /\ ~docx.built
    /\ docx' = build_docx(args.data, args.invitation_path, args.photo_paths, uploads)
    /\ UNCHANGED <<uploads, outputs, last, pdfFailed, ngen, args, pdf>>

CallBuildPdf ==
    /\ docx.built
    /\ ~pdf.built
    /\ pdf' = build_pdf(args.data, args.invitation_path, args.photo_paths, uploads)
    /\ UNCHANGED <<uploads, outputs, last, pdfFailed, ngen, args, docx>>

----------------------------------------------------------------------------
(* Inputs *)

TitleChars == {"R", SPACE, "!"}
Titles == BoundedSeq(TitleChars, MaxTitleLen)

IMG1 == Image(1, 400, 300)
IMG2 == Image(2, 400, 300)

A_PNG == <<"a", ".", "p", "n", "g">>
DIR_A_PNG == <<"/", "a", ".", "p", "n", "g">>
B_GIF == <<"b", ".", "G", "I", "F">>
C_TXT == <<"c", ".", "t", "x", "t">>

UploadNames == {A_PNG, DIR_A_PNG, B_GIF, C_TXT}
Files == {FileStorage(n, i) : n \in UploadNames, i \in {IMG1, IMG2}}

OutputNames == {BaseName(t) \o e : t \in Titles, e \in {EXT_DOCX, EXT_PDF}}

\* the files of a direct builder call: a tall photo, a wide one, a broken one
TALL == <<"t", ".", "p", "n", "g">>
WIDE == <<"w", ".", "p", "n", "g">>
BAD == <<"b", ".", "p", "n", "g">>
GridFiles == (TALL :> Image(1, 300, 400)) @@ (WIDE :> Image(2, 2400, 200))
             @@ (BAD :> Undecodable(3))
GridPaths == {PathJoin(UPLOAD_FOLDER, n) : n \in {TALL, WIDE, BAD}}

LineCounts == {1, MaxLines - 1, MaxLines}
Texts == {Text(TRUE, 0), Text(FALSE, 0)} \cup {Text(FALSE, n) : n \in LineCounts}

----------------------------------------------------------------------------
(* Specifications *)

InitWeb ==
    /\ uploads = EmptyFolder
    /\ outputs = EmptyFolder
    /\ last = [op |-> "none"]
    /\ pdfFailed = {}
    /\ ngen = 0
    /\ args = NoArgs
    /\ docx = NotBuilt
    /\ pdf = NotBuilt

\* requests that differ in the title and in which builder raises
GenerateTitled ==
    \E title \in Titles, docxRaises \in BOOLEAN, pdfRaises \in BOOLEAN :
        Generate(title, NoFile, <<FileStorage(A_PNG, IMG1)>>, docxRaises, pdfRaises)

\* requests that differ in the uploaded files
GenerateUploads ==
    \E invitation_file \in {NoFile, FileStorage(A_PNG, IMG1), FileStorage(C_TXT, IMG1)},
       photos \in BoundedSeq(Files, MaxUploadPhotos) :
        Generate(<<"R">>, invitation_file, photos, FALSE, FALSE)

\* requests with or without a title, an invitation and a photo
GenerateAny ==
    \E title \in {<<>>, <<"R", SPACE, "W">>},
       invitation_file \in {NoFile, FileStorage(B_GIF, IMG2)},
       photos \in {<<>>, <<FileStorage(A_PNG, IMG1)>>},
       docxRaises \in BOOLEAN, pdfRaises \in BOOLEAN :
        Generate(title, invitation_file, photos, docxRaises, pdfRaises)

DownloadAny ==
    \E fmt \in {"docx", "pdf"}, filename \in OutputNames : Download(fmt, filename)

NextWeb == GenerateTitled \/ DownloadAny
SpecWeb == InitWeb /\ [][NextWeb]_vars

NextUpload == GenerateUploads \/ DownloadAny
SpecUpload == InitWeb /\ [][NextUpload]_vars

NextGenerate == GenerateAny \/ DownloadAny
SpecGenerate == InitWeb /\ [][NextGenerate]_vars

InitBuild(argset) ==
    /\ uploads = GridFiles
    /\ outputs = EmptyFolder
    /\ last = [op |-> "none"]
    /\ pdfFailed = {}
    /\ ngen = 0
    /\ args \in argset
    /\ docx = NotBuilt
    /\ pdf = NotBuilt

NextBuild == CallBuildDocx \/ CallBuildPdf

\* the photo grid: every list of photos, a short report
GridArgs ==
    {[data |-> FormData(<<"R">>, Text(FALSE, 1), EmptyText, EmptyText, EmptyText, EmptyText),
      invitation_path |-> NoPath, photo_paths |-> pp] :
        pp \in BoundedSeq(GridPaths, MaxPhotos)}
SpecGrid == InitBuild(GridArgs) /\ [][NextBuild]_vars

\* the report page: every combination of section texts
ReportArgs ==
    {[data |-> FormData(<<"R">>, ov, d1, d2, lo, co),
      invitation_path |-> NoPath, photo_paths |-> <<>>] :
        ov \in Texts, d1 \in Texts, d2 \in Texts, lo \in Texts, co \in Texts}
SpecReport == InitBuild(ReportArgs) /\ [][NextBuild]_vars

----------------------------------------------------------------------------
(* Reading a built document *)

Ceil2(n) == (n + 1) \div 2

\* the rows of the photo grid of a DOCX, in document order
DocxPhotoRows(d) == SelectSeq(d.body, LAMBDA b : b.kind = "table" /\ b.label = "photos")

\* the cell the grid gives photo i (0-based): row i div 2, column i mod 2
DocxCell(d, i) == DocxPhotoRows(d)[(i \div 2) + 1].cells[(i % 2) + 1]

\* the positions in the body of the rows of the photo grid
DocxRowPositions(d) ==
    {k \in 1..Len(d.body) : d.body[k].kind = "table" /\ d.body[k].label = "photos"}

IsNotice(b) == b.kind = "para" /\ b.label = "(Unable to add image)"

\* the files named by the notices that follow row r (0-based) of the grid
\* and precede the next row
DocxNoticesAfterRow(d, r) ==
    LET tables == {k \in 1..Len(d.body) :
                      /\ d.body[k].kind = "table"
                      /\ d.body[k].label = "photos"
                      /\ Cardinality({j \in DocxRowPositions(d) : j < k}) = r}
        from == CHOOSE k \in tables : TRUE
        later == {k \in DocxRowPositions(d) : k > from}
        upto == IF later = {} THEN Len(d.body)
                ELSE (CHOOSE k \in later : \A j \in later : k <= j) - 1
        between == SubSeq(d.body, from + 1, upto)
        notices == SelectSeq(between, IsNotice)
    IN  [k \in 1..Len(notices) |-> notices[k].arg]

\* the blocks of the last page of a DOCX
DocxLastPage(d) ==
    LET breaks == {k \in 1..Len(d.body) : d.body[k].kind = "pagebreak"}
        lastBreak == CHOOSE k \in breaks : \A j \in breaks : j <= k
    IN  SubSeq(d.body, lastBreak + 1, Len(d.body))

\* the texts drawn on the last page of a PDF, and the images on it
PdfLastPageTexts(p) ==
    LET texts == SelectSeq(p.ops, LAMBDA o : o.op = "text" /\ o.page = p.pages)
    IN  [k \in 1..Len(texts) |-> texts[k].label]

PdfPhotoOps(p) == SelectSeq(p.ops, LAMBDA o : o.op = "image" /\ o.idx >= 0)

\* the logical section a heading opens ("" for any other text)
SectionOf(label) ==
    CASE label \in {"Workshop Overview", "Workshop Overview:"} -> "Overview"
      [] label = "Day 1: Fundamentals and Demonstrations" -> "Day 1"
      [] label = "Day 2: Advanced Troubleshooting and Maintenance" -> "Day 2"
      [] label \in {"Learning Outcomes", "Learning Outcomes:"} -> "Learning Outcomes"
      [] label \in {"Conclusion", "Conclusion:"} -> "Conclusion"
      [] OTHER -> ""

DocxSections(d) ==
    LET heads == SelectSeq(d.body, LAMBDA b : b.kind = "para" /\ SectionOf(b.label) # "")
    IN  [k \in 1..Len(heads) |-> SectionOf(heads[k].label)]

PdfSections(p) ==
    LET heads == SelectSeq(p.ops, LAMBDA o : o.op = "text" /\ SectionOf(o.label) # "")
    IN  [k \in 1..Len(heads) |-> SectionOf(heads[k].label)]

\* the photos of the call, 0-based, and what their files hold
NPhotos == Len(args.photo_paths)
PhotoFile(i) == uploads[Basename(args.photo_paths[i + 1])]

----------------------------------------------------------------------------
(* C1 *)

\* C1: in generate, when build_docx raises the request is aborted: the error
\* is flashed, the response is the redirect to the index and build_pdf is not
\* called; when build_docx succeeds the response is the preview of the
\* request's data, paths and the two artifact names, whether build_pdf
\* raised or not.
C1_GenerateErrorPolicy ==
    last.op = "generate" =>
        /\ last.docxRaised =>
              /\ last.flashed = <<"Error creating DOCX">>
              /\ last.response = Redirect("index")
              /\ ~last.pdfCalled
        /\ ~last.docxRaised =>
              /\ last.flashed = <<>>
              /\ last.pdfCalled
              /\ last.response =
                    Preview(FormData(last.title, EmptyText, EmptyText, EmptyText,
                                     EmptyText, EmptyText),
                            last.invitation_path, last.photo_paths,
                            last.base_name \o EXT_DOCX, last.base_name \o EXT_PDF)

\* a request whose DOCX was built, whose PDF build raised, and which was
\* answered with the preview
C1_Witness ==
    /\ last.op = "generate"
    /\ ~last.docxRaised
    /\ last.pdfRaised
    /\ last.response.kind = "preview"
    /\ last.photo_paths # <<>>

----------------------------------------------------------------------------
(* C2 *)

\* C2: when the PDF build of the latest request for a base name raised, a
\* download of that PDF name with fmt = pdf answers "PDF not available", 404,
\* also when an earlier request of the same base name had built its PDF.
C2_PdfNotAvailableAfterFailedBuild ==
    (last.op = "download" /\ last.fmt = "pdf" /\ last.filename \in pdfFailed)
        => last.response = TextResponse("PDF not available", 404)

----------------------------------------------------------------------------
(* C3 *)

AcceptedPhotos(photos) ==
    SelectSeq(photos, LAMBDA f : FilePresent(f) /\ allowed_file(f.filename))

\* C3: the k-th photo slot of the DOCX grid and of the PDF grid shows what
\* the k-th accepted uploaded photo holds, whatever the filenames.
C3_PhotoOrderPreserved ==
    last.op = "generate" =>
        LET accepted == AcceptedPhotos(last.photos)
            d == outputs[last.base_name \o EXT_DOCX]
            p == outputs[last.base_name \o EXT_PDF]
        IN  \A k \in 1..Len(accepted) :
                /\ DocxCell(d, k - 1) = <<accepted[k].img>>
                /\ PdfPhotoOps(p)[k].img = accepted[k].img

----------------------------------------------------------------------------
(* C4 *)

IsBlank(title) == \A i \in 1..Len(title) : title[i] = SPACE

\* C4: both artifacts are named from one base name; a blank title gives the
\* base name "event", and the base name is never the empty string.
C4_BaseNameNeverEmpty ==
    last.op = "generate" =>
        /\ last.base_name # <<>>
        /\ IsBlank(last.title) => last.base_name = EVENT
        /\ last.response.kind = "preview" =>
              /\ last.response.docx = last.base_name \o EXT_DOCX
              /\ last.response.pdf = last.base_name \o EXT_PDF

----------------------------------------------------------------------------
(* C5 *)

BlockLabels(blocks) ==
    [k \in 1..Len(blocks) |-> IF blocks[k].kind \in {"para", "table"}
                              THEN blocks[k].label ELSE blocks[k].kind]

\* C5: for zero photos the photographs page of build_docx and of build_pdf
\* is the "Event Photographs" heading followed by one "no photos" notice,
\* with no grid rows.
C5_NoPhotosNotice ==
    (docx.built /\ pdf.built /\ args.photo_paths = <<>>) =>
        /\ BlockLabels(DocxLastPage(docx)) = <<"Event Photographs", "No photos uploaded.">>
        /\ PdfLastPageTexts(pdf) = <<"Event Photographs", "No photos uploaded.">>
        /\ PdfPhotoOps(pdf) = <<>>

----------------------------------------------------------------------------
(* C6 *)

Notice(p) == Para("Normal", "(Unable to add image)", Basename(p))

\* C6 as claimed: in build_docx every photo whose insertion fails is replaced
\* inside its own grid cell (row i div 2, column i mod 2) by a notice naming
\* the file, and every other photo is in its own cell.
C6_NoticeInCell ==
    docx.built =>
        \A i \in 0..(NPhotos - 1) :
            /\ Len(DocxPhotoRows(docx)) > i \div 2
            /\ DocxCell(docx, i) = IF PhotoFile(i).ok
                                   THEN <<PhotoFile(i)>>
                                   ELSE <<Notice(args.photo_paths[i + 1])>>

\* the files of the failing photos among the two of row r, in order
FailingOfRow(r) ==
    LET idxs == <<2 * r, 2 * r + 1>>
        bad(i) == i < NPhotos /\ ~PhotoFile(i).ok
        name(i) == Basename(args.photo_paths[i + 1])
    IN  (IF bad(idxs[1]) THEN <<name(idxs[1])>> ELSE <<>>)
        \o (IF bad(idxs[2]) THEN <<name(idxs[2])>> ELSE <<>>)

\* C6 as amended: in build_docx every photo whose insertion fails leaves its
\* own grid cell (row i div 2, column i mod 2) empty, and a notice naming the
\* file is added as a paragraph of the body after that row and before the
\* next row; the build completes, and every other photo is in its own cell.
C6_NoticeAfterRow ==
    docx.built =>
        /\ Len(DocxPhotoRows(docx)) = Ceil2(NPhotos)
        /\ \A i \in 0..(NPhotos - 1) :
              DocxCell(docx, i) = IF PhotoFile(i).ok THEN <<PhotoFile(i)>> ELSE <<>>
        /\ \A r \in 0..(Ceil2(NPhotos) - 1) :
              DocxNoticesAfterRow(docx, r) = FailingOfRow(r)

\* a built document with a failing photo in each column and a good one
C6_Witness ==
    /\ docx.built
    /\ \E i, j, k \in 0..(NPhotos - 1) :
          /\ i % 2 = 0 /\ ~PhotoFile(i).ok
          /\ j % 2 = 1 /\ ~PhotoFile(j).ok
          /\ k > i /\ k > j /\ PhotoFile(k).ok
          /\ DocxCell(docx, k) = <<PhotoFile(k)>>

----------------------------------------------------------------------------
(* C7 *)

SameRow(a, b) == a.page = b.page /\ a.row = b.row

\* C7: for N > 0 photos, whichever of them fail to decode, both builders fill
\* the grid column-then-row: photo i has column i mod 2 of the (i div 2)-th
\* row, there are ceil(N/2) rows, and the second cell of the last row is
\* empty when N is odd.
C7_GridColumnThenRow ==
    (docx.built /\ pdf.built /\ NPhotos > 0) =>
        LET rows == DocxPhotoRows(docx)
            slot(i) == pdf.slots[i + 1]
            drawn == PdfPhotoOps(pdf)
        IN  /\ Len(rows) = Ceil2(NPhotos)
            /\ \A i \in 0..(NPhotos - 1) :
                  PhotoFile(i).ok => DocxCell(docx, i) = <<PhotoFile(i)>>
            /\ \A r \in 1..Len(rows) : \A c \in 1..2 :
                  Len(rows[r].cells[c]) = IF /\ 2 * (r - 1) + (c - 1) < NPhotos
                                             /\ PhotoFile(2 * (r - 1) + (c - 1)).ok
                                          THEN 1 ELSE 0
            /\ Len(pdf.slots) = NPhotos
            /\ \A i \in 0..(NPhotos - 1) :
                  /\ slot(i).idx = i
                  /\ slot(i).col = i % 2
                  /\ slot(i).drawn = PhotoFile(i).ok
            /\ \A i, j \in 0..(NPhotos - 1) :
                  /\ SameRow(slot(i), slot(j)) <=> (i \div 2 = j \div 2)
                  /\ i < j => \/ slot(i).page < slot(j).page
                              \/ /\ slot(i).page = slot(j).page
                                 /\ slot(i).row <= slot(j).row
            /\ Cardinality({<<slot(i).page, slot(i).row>> : i \in 0..(NPhotos - 1)})
                  = Ceil2(NPhotos)
            /\ NPhotos % 2 = 1 =>
                  ~\E i \in 0..(NPhotos - 1) :
                      SameRow(slot(i), slot(NPhotos - 1)) /\ slot(i).col = 1
            /\ Len(drawn) = Cardinality({i \in 0..(NPhotos - 1) : PhotoFile(i).ok})
            /\ \A k \in 1..Len(drawn) :
                  LET o == drawn[k]
                      sl == slot(o.idx)
                  IN  /\ o.page = sl.page
                      /\ o.x >= x_positions[sl.col + 1]
                      /\ o.x + o.w <= x_positions[sl.col + 1] + col_w
                      /\ o.y + o.h = PageH - Pt(160) - sl.row * (row_h + Pt(20))

\* an odd number of photos, some undecodable, over more than one grid page
C7_Witness ==
    /\ docx.built
    /\ pdf.built
    /\ NPhotos % 2 = 1
    /\ NPhotos >= 9
    /\ \E i \in 0..(NPhotos - 1) : ~PhotoFile(i).ok
    /\ \E i \in 0..(NPhotos - 1) : PhotoFile(i).ok /\ pdf.slots[i + 1].page > pdf.slots[1].page

----------------------------------------------------------------------------
(* C8 *)

IsSectionDraw(o) == o.op = "line" \/ (o.op = "text" /\ SectionOf(o.label) # "")

\* C8: in build_pdf no section heading and no wrapped line of the report is
\* drawn with y below the bottom margin of 120pt, and a page break inside a
\* section redraws the header and puts the next line at h - 120.
C8_NoLineBelowMargin ==
    pdf.built =>
        /\ \A k \in 1..Len(pdf.ops) :
              IsSectionDraw(pdf.ops[k]) => pdf.ops[k].y >= Pt(120)
        /\ \A k \in 2..Len(pdf.ops) :
              pdf.ops[k].op = "line" => pdf.ops[k - 1].page = pdf.ops[k].page
        /\ \A k \in 3..Len(pdf.ops) :
              (pdf.ops[k].op = "line" /\ pdf.ops[k - 1].op = "header"
                    /\ pdf.ops[k - 2].op = "line")
                 => pdf.ops[k].y = PageH - Pt(120)

----------------------------------------------------------------------------
(* C9 *)

\* the rows of full height that fit above the bottom margin of a grid page
RowsPerPage ==
    Cardinality({r \in 0..9 :
        PageH - Pt(160) - r * (row_h + Pt(20)) - row_h >= Pt(120)})

\* C9: in the build_pdf photo grid no photo is drawn with its lower edge
\* below 120pt, and the page and row of a photo depend on its index alone: a
\* new page starts exactly when the next row would fall below the margin.
C9_PhotoAboveMargin ==
    pdf.built =>
        /\ \A k \in 1..Len(PdfPhotoOps(pdf)) : PdfPhotoOps(pdf)[k].y >= Pt(120)
        /\ \A i \in 0..(NPhotos - 1) :
              /\ pdf.slots[i + 1].row = (i \div 2) % RowsPerPage
              /\ pdf.slots[i + 1].page = pdf.slots[1].page + (i \div 2) \div RowsPerPage

----------------------------------------------------------------------------
(* C10 *)

\* C10: build_docx and build_pdf emit the same sequence of section headings:
\* Day 1, Day 2 and Learning Outcomes exactly when their text is not empty,
\* Overview and Conclusion treated alike by both.
C10_SameHeadings ==
    (docx.built /\ pdf.built) =>
        /\ DocxSections(docx) = PdfSections(pdf)
        /\ \A sec \in {"Day 1", "Day 2", "Learning Outcomes"} :
              LET text == CASE sec = "Day 1" -> args.data.day1
                            [] sec = "Day 2" -> args.data.day2
                            [] OTHER -> args.data.learning_outcomes
              IN  /\ (sec \in Range(DocxSections(docx))) <=> Truthy(text)
                  /\ (sec \in Range(PdfSections(pdf))) <=> Truthy(text)

====
